---- MODULE Spec2Model ----
(***************************************************************************)
(* A state-machine model of the NextjsSite construct                       *)
(* (packages/sst/src/constructs/NextjsSite.ts).                            *)
(*                                                                         *)
(* The state is the construct tree the NextjsSite instance owns (its       *)
(* child constructs and their properties), the server-function handles it  *)
(* inherits from SsrSite, the CloudFront distribution description and the  *)
(* deferred task list.  One behaviour of the model is the life of one      *)
(* NextjsSite instance: base construction, distribution assembly, the      *)
(* constructor's own registration, the external build and the drain of     *)
(* the deferred tasks.                                                     *)
(*                                                                         *)
(* Optional values (TypeScript `T | undefined`) are sequences of length    *)
(* at most one: <<>> is undefined, <<v>> is the value v.  JavaScript       *)
(* strings that the code takes apart (size strings) are sequences of       *)
(* one-character strings; strings that are only concatenated or compared   *)
(* are TLA+ strings.                                                       *)
(***************************************************************************)
EXTENDS Integers, Sequences, FiniteSets, TLC

VARIABLES
    props,                    \* this.props, fixed at construction
    pc,                       \* position in the construct's life cycle
    constructs,               \* child constructs of the site: id -> properties
    serverLambdaForRegional,  \* this.serverLambdaForRegional (optional id)
    serverLambdaForEdge,      \* this.serverLambdaForEdge (optional id)
    serverBehavior,           \* the server behaviour built for the distribution
    imageBehavior,            \* the behaviour buildImageBehavior returned
    distribution,             \* the props handed to new Distribution(this, "CDN")
    deferredTaskCallbacks,    \* this.deferredTaskCallbacks
    ran,                      \* the callbacks executed so far, in order
    buildDone                 \* the external build command has completed

vars == << props, pc, constructs, serverLambdaForRegional, serverLambdaForEdge,
           serverBehavior, imageBehavior, distribution, deferredTaskCallbacks,
           ran, buildDone >>

-----------------------------------------------------------------------------
(* Bounds of the model *)

\* memory sizes offered as input are the multiples of 128 up to 128 * MaxMemoryUnits
MaxMemoryUnits == 2
\* how many of the caller's candidate path patterns may appear in
\* cdk.distribution.additionalBehaviors
MaxUserPatterns == 2

-----------------------------------------------------------------------------
(* Optional values *)

None == << >>
Some(v) == << v >>
IsSome(o) == Len(o) > 0
Val(o) == o[1]

-----------------------------------------------------------------------------
(* Program constants *)

ImageMemoryDefault == 1536
ImageMemoryDocumentedDefault == 1024
QueueReceiveWaitSeconds == 20
RevalidationBatchSize == 5
RevalidationTimeoutSeconds == 30
ImageTimeoutSeconds == 25

InlinePlaceholder == "export function handler() {}"

\* the headers NextjsSite hands to SsrSite.useServerBehaviorCachePolicy
ServerCacheHeaders ==
    { "accept", "rsc", "next-router-prefetch", "next-router-state-tree", "next-url" }

-----------------------------------------------------------------------------
(* pathPattern *)

pathPatternIgnoresBase(basePath, pattern) == pattern

pathPattern(basePath, pattern) ==
    LET bp == IF IsSome(basePath) THEN Val(basePath) ELSE ""
    IN  IF bp # "" /\ Len(bp) > 0 THEN bp \o pattern ELSE pattern

-----------------------------------------------------------------------------
(* Size strings: util/size.js *)

DigitChars == << "0", "1", "2", "3", "4", "5", "6", "7", "8", "9" >>

IsDigit(c) == \E d \in 1..10 : DigitChars[d] = c
DigitOf(c) == (CHOOSE d \in 1..10 : DigitChars[d] = c) - 1

\* String.prototype.split(" ") for a string with one separator
SplitIndex(s) == CHOOSE i \in 1..Len(s) : s[i] = " " /\ \A j \in 1..(i - 1) : s[j] # " "
SplitCount(s) == SubSeq(s, 1, SplitIndex(s) - 1)
SplitUnit(s) == SubSeq(s, SplitIndex(s) + 1, Len(s))

RECURSIVE ParseDigits(_, _)
ParseDigits(s, acc) ==
    IF s = << >> \/ ~IsDigit(Head(s)) THEN acc
    ELSE ParseDigits(Tail(s), acc * 10 + DigitOf(Head(s)))

parseInt(s) == ParseDigits(s, 0)

\* toCdkSize(size).toMebibytes()
toCdkSizeMebibytes(size) ==
    LET count == parseInt(SplitCount(size))
        unit  == SplitUnit(size)
    IN  IF unit = << "G", "B" >> THEN count * 1024 ELSE count

\* imageOptimization?.memorySize ? (typeof ... === "string" ? ... : ...) : 1536
\* A number is truthy unless it is 0; a string is truthy unless it is empty.
Truthy(m) ==
    /\ IsSome(m)
    /\ IF Val(m).type = "number" THEN Val(m).value # 0 ELSE Val(m).value # << >>

ImageMemorySize(imageOptimization) ==
    LET m == IF IsSome(imageOptimization) THEN Val(imageOptimization).memorySize ELSE None
    IN  IF Truthy(m)
        THEN IF Val(m).type = "string"
             THEN toCdkSizeMebibytes(Val(m).value)
             ELSE Val(m).value
        ELSE ImageMemoryDefault

-----------------------------------------------------------------------------
(* Objects as functions from keys to values; {...a, ...b} *)

EmptyObject == [k \in {} |-> None]
Field(k, v) == [x \in {k} |-> v]
Spread(a, b) == [k \in (DOMAIN a) \cup (DOMAIN b) |-> IF k \in DOMAIN b THEN b[k] ELSE a[k]]
OptField(present, k, v) == IF present THEN Field(k, v) ELSE EmptyObject

-----------------------------------------------------------------------------
(* The inputs: NextjsSiteProps *)

SitePath == "my-next-app"

BasePaths == { None, Some(""), Some("/docs") }

RECURSIVE Digits(_)
Digits(n) == IF n < 10 THEN << DigitChars[n + 1] >>
             ELSE Digits(n \div 10) \o << DigitChars[(n % 10) + 1] >>

\* the size string "n MB"
MBString(n) == Digits(n) \o << " ", "M", "B" >>
GBString(n) == Digits(n) \o << " ", "G", "B" >>

MemoryNumbers == { 128 * k : k \in 0..MaxMemoryUnits }

MemorySizeInputs ==
    { None }
      \cup { Some([type |-> "number", value |-> n]) : n \in MemoryNumbers }
      \cup { Some([type |-> "string", value |-> MBString(n)]) : n \in MemoryNumbers }
      \cup { Some([type |-> "string", value |-> GBString(1)]) }

ImageOptimizationInputs ==
    { None } \cup { Some([memorySize |-> m]) : m \in MemorySizeInputs }

RegionalInputs ==
    { None } \cup { Some([enableServerUrlIamAuth |-> b]) : b \in BOOLEAN }

\* a cache policy and a behaviour the caller built
UserServerCachePolicy == [id |-> "UserServerCache", headers |-> { "authorization" }]
UserBehaviorCachePolicy == [id |-> "UserBehaviorCache", headers |-> {}]
UserBehavior ==
    [origin |-> "UserOrigin", cachePolicy |-> UserBehaviorCachePolicy, edgeLambdas |-> << >>]

\* path patterns the caller may name in cdk.distribution.additionalBehaviors
UserPatternList == << "_next/image*", "/extra/*", "/docs/api/*", "api/*", "_next/data/*" >>
UserPatterns ==
    { UserPatternList[i] : i \in { j \in 1..Len(UserPatternList) : j <= MaxUserPatterns } }

UserAdditionalBehaviors ==
    { [p \in ps |-> UserBehavior] : ps \in SUBSET UserPatterns }

\* cdk.distribution: any of defaultRootObject, defaultBehavior, additionalBehaviors
DistributionOverrides ==
    { None } \cup
    { Some(Spread(Spread(OptField(r, "defaultRootObject", "index.html"),
                         OptField(d, "defaultBehavior", UserBehavior)),
                  IF IsSome(a) THEN Field("additionalBehaviors", Val(a)) ELSE EmptyObject)) :
        r \in BOOLEAN, d \in BOOLEAN,
        a \in { None } \cup { Some(f) : f \in UserAdditionalBehaviors } }

PropsInputs ==
    [ path              : { SitePath },
      basePath          : BasePaths,
      edge              : BOOLEAN,
      regional          : RegionalInputs,
      imageOptimization : ImageOptimizationInputs,
      cdk               : [ serverCachePolicy : { None, Some(UserServerCachePolicy) },
                            distribution      : DistributionOverrides ] ]

-----------------------------------------------------------------------------
(* The construct tree *)

AddConstruct(cs, id, c) == [k \in (DOMAIN cs) \cup {id} |-> IF k = id THEN c ELSE cs[k]]
Has(cs, id) == id \in DOMAIN cs

Init ==
    /\ props \in PropsInputs
    /\ pc = "new"
    /\ constructs = EmptyObject
    /\ serverLambdaForRegional = None
    /\ serverLambdaForEdge = None
    /\ serverBehavior = None
    /\ imageBehavior = None
    /\ distribution = None
    /\ deferredTaskCallbacks = << >>
    /\ ran = << >>
    /\ buildDone = FALSE

-----------------------------------------------------------------------------
(* SsrSite: the base class's part of construction *)

Region == "Stack.region"
BucketName == "S3Bucket.bucketName"

\* environment: {...environment, CACHE_BUCKET_NAME, CACHE_BUCKET_KEY_PREFIX, CACHE_BUCKET_REGION}
ServerEnvironment ==
    Spread(EmptyObject,
           [CACHE_BUCKET_NAME |-> BucketName,
            CACHE_BUCKET_KEY_PREFIX |-> "_cache",
            CACHE_BUCKET_REGION |-> Region])

createFunctionForRegional ==
    [type        |-> "SsrFunction",
     description |-> "Next.js server",
     bundle      |-> props.path \o "/.open-next/server-function",
     handler     |-> "index.handler",
     environment |-> ServerEnvironment,
     role        |-> "ServerFunctionRole",
     rolePolicy  |-> {}]

createFunctionForEdge ==
    [type        |-> "EdgeFunction",
     bundle      |-> props.path \o "/.open-next/server-function",
     handler     |-> "index.handler",
     environment |-> ServerEnvironment,
     role        |-> "ServerFunctionRole",
     rolePolicy  |-> {}]

\* The base constructor creates the asset bucket and one server function,
\* regional or edge; in a deployment mode that has no server function it
\* creates neither function nor distribution.
SsrSiteCreateFunction ==
    /\ pc = "new"
    /\ \/ /\ ~props.edge
          /\ serverLambdaForRegional' = Some("ServerFunction")
          /\ constructs' = AddConstruct(AddConstruct(constructs, "S3Bucket", [type |-> "Bucket"]),
                                        "ServerFunction", createFunctionForRegional)
          /\ pc' = "function"
          /\ UNCHANGED serverLambdaForEdge
       \/ /\ props.edge
          /\ serverLambdaForEdge' = Some("ServerFunction")
          /\ constructs' = AddConstruct(AddConstruct(constructs, "S3Bucket", [type |-> "Bucket"]),
                                        "ServerFunction", createFunctionForEdge)
          /\ pc' = "function"
          /\ UNCHANGED serverLambdaForRegional
       \/ /\ pc' = "super"
          /\ UNCHANGED << constructs, serverLambdaForRegional, serverLambdaForEdge >>
    /\ UNCHANGED << props, serverBehavior, imageBehavior, distribution,
                    deferredTaskCallbacks, ran, buildDone >>

\* SsrSite.useServerBehaviorCachePolicy(allowedHeaders): the cache policy
\* whose header behaviour is the allow-list of the given headers
SsrSiteUseServerBehaviorCachePolicy(allowedHeaders) ==
    [id |-> "ServerCache", headers |-> allowedHeaders]

useServerBehaviorCachePolicyFewer ==
    SsrSiteUseServerBehaviorCachePolicy(ServerCacheHeaders \ { "next-url" })

useServerBehaviorCachePolicy ==
    SsrSiteUseServerBehaviorCachePolicy(ServerCacheHeaders)

\* cdk?.serverCachePolicy ?? this.useServerBehaviorCachePolicy()
BehaviorCachePolicy ==
    IF IsSome(props.cdk.serverCachePolicy)
    THEN Val(props.cdk.serverCachePolicy)
    ELSE useServerBehaviorCachePolicy

\* buildDefaultBehaviorForRegional / buildDefaultBehaviorForEdge
buildDefaultBehavior ==
    [origin      |-> "ServerFunction",
     cachePolicy |-> BehaviorCachePolicy,
     edgeLambdas |-> << >>]

-----------------------------------------------------------------------------
(* createImageOptimizationFunction and buildImageBehavior *)

enableServerUrlIamAuth ==
    IsSome(props.regional) /\ Val(props.regional).enableServerUrlIamAuth

createImageOptimizationFunction ==
    [type         |-> "Function",
     description  |-> "Next.js image optimizer",
     handler      |-> "index.handler",
     code         |-> [zipFile |-> InlinePlaceholder],
     memorySize   |-> ImageMemorySize(props.imageOptimization),
     timeout      |-> ImageTimeoutSeconds,
     environment  |-> [BUCKET_NAME |-> BucketName, BUCKET_KEY_PREFIX |-> "_assets"],
     initialPolicy |-> { [action |-> "s3:GetObject", resource |-> "S3Bucket/*"] },
     functionUrlAuthType |-> None]

\* imageFn.addFunctionUrl({ authType })
ImageFunctionWithUrl ==
    [createImageOptimizationFunction EXCEPT
        !.functionUrlAuthType = Some(IF enableServerUrlIamAuth THEN "AWS_IAM" ELSE "NONE")]

SigningEdgeLambda ==
    [includeBody     |-> TRUE,
     eventType       |-> "ORIGIN_REQUEST",
     functionVersion |-> "ServerUrlSigningFunction"]

buildImageBehaviorNoSigning ==
    [viewerProtocolPolicy |-> "REDIRECT_TO_HTTPS",
     origin               |-> "ImageFunction.url",
     allowedMethods       |-> "ALLOW_ALL",
     cachedMethods        |-> "CACHE_GET_HEAD_OPTIONS",
     compress             |-> TRUE,
     cachePolicy          |-> BehaviorCachePolicy,
     edgeLambdas          |-> << >>]

buildImageBehavior ==
    [viewerProtocolPolicy |-> "REDIRECT_TO_HTTPS",
     origin               |-> "ImageFunction.url",
     allowedMethods       |-> "ALLOW_ALL",
     cachedMethods        |-> "CACHE_GET_HEAD_OPTIONS",
     compress             |-> TRUE,
     cachePolicy          |-> BehaviorCachePolicy,
     edgeLambdas          |-> IF enableServerUrlIamAuth THEN << SigningEdgeLambda >> ELSE << >>]

\* the constructs buildImageBehavior leaves in the tree: the image function
\* with its URL and, with signed URLs, the signing function with the
\* permission to invoke the image function's URL
ConstructsAfterImageBehavior(cs) ==
    LET withFn == AddConstruct(cs, "ImageFunction", ImageFunctionWithUrl)
    IN  IF enableServerUrlIamAuth
        THEN AddConstruct(withFn, "ServerUrlSigningFunction",
                 [type        |-> "EdgeFunction",
                  permissions |-> { [action   |-> "lambda:InvokeFunctionUrl",
                                     resource |-> "ImageFunction"] }])
        ELSE withFn

-----------------------------------------------------------------------------
(* The distribution builders *)

cfDistributionProps ==
    IF IsSome(props.cdk.distribution) THEN Val(props.cdk.distribution) ELSE EmptyObject

\* ...(cfDistributionProps.additionalBehaviors || {})
UserBehaviorsToSpread ==
    IF "additionalBehaviors" \in DOMAIN cfDistributionProps
    THEN cfDistributionProps["additionalBehaviors"]
    ELSE EmptyObject

DistributionProps(server, image, apiPattern, dataPattern, imagePattern) ==
    Spread(Spread(Field("defaultRootObject", ""), cfDistributionProps),
           Spread(Field("defaultBehavior", server),
                  Field("additionalBehaviors",
                        Spread(Spread(Spread(Field(apiPattern, server),
                                             Field(dataPattern, server)),
                                      Field(imagePattern, image)),
                               UserBehaviorsToSpread))))

RegionalApiPattern == pathPattern(props.basePath, "/api/*")
RegionalDataPattern == pathPattern(props.basePath, "_next/data/*")
RegionalImagePattern == pathPattern(props.basePath, "_next/image*")

BuildDistribution(apiPattern, dataPattern, imagePattern) ==
    /\ serverBehavior' = Some(buildDefaultBehavior)
    /\ imageBehavior' = Some(buildImageBehavior)
    /\ deferredTaskCallbacks' = Append(deferredTaskCallbacks, "updateImageCode")
    /\ distribution' = Some(DistributionProps(buildDefaultBehavior, buildImageBehavior,
                                              apiPattern, dataPattern, imagePattern))
    /\ constructs' = AddConstruct(ConstructsAfterImageBehavior(constructs),
                                  "CDN", [type |-> "Distribution"])
    /\ pc' = "super"
    /\ UNCHANGED << props, serverLambdaForRegional, serverLambdaForEdge, ran, buildDone >>

createCloudFrontDistributionForRegional ==
    /\ pc = "function"
    /\ IsSome(serverLambdaForRegional)
    /\ BuildDistribution(RegionalApiPattern, RegionalDataPattern, RegionalImagePattern)

createCloudFrontDistributionForEdge ==
    /\ pc = "function"
    /\ IsSome(serverLambdaForEdge)
    /\ BuildDistribution("api/*", "_next/data/*", "_next/image*")

-----------------------------------------------------------------------------
(* The NextjsSite constructor, after super() has returned *)

NextjsSiteConstructorUnshift ==
    /\ pc = "super"
    /\ deferredTaskCallbacks' = << "createRevalidation" >> \o deferredTaskCallbacks
    /\ pc' = "constructed"
    /\ UNCHANGED << props, constructs, serverLambdaForRegional, serverLambdaForEdge,
                    serverBehavior, imageBehavior, distribution, ran, buildDone >>

NextjsSiteConstructor ==
    /\ pc = "super"
    /\ deferredTaskCallbacks' = Append(deferredTaskCallbacks, "createRevalidation")
    /\ pc' = "constructed"
    /\ UNCHANGED << props, constructs, serverLambdaForRegional, serverLambdaForEdge,
                    serverBehavior, imageBehavior, distribution, ran, buildDone >>

-----------------------------------------------------------------------------
(* The external build and the drain of the deferred tasks *)

BuildApp ==
    /\ pc = "constructed"
    /\ buildDone' = TRUE
    /\ pc' = "built"
    /\ UNCHANGED << props, constructs, serverLambdaForRegional, serverLambdaForEdge,
                    serverBehavior, imageBehavior, distribution, deferredTaskCallbacks, ran >>

\* the callback createImageOptimizationFunction registered
ImageBundleCode ==
    [s3Bucket        |-> Some("AssetBucket"),
     s3Key           |-> Some(props.path \o "/.open-next/image-optimization-function.zip"),
     s3ObjectVersion |-> None]

updateImageCodeKeepsPlaceholder ==
    UNCHANGED constructs

updateImageCode ==
    constructs' = [constructs EXCEPT !["ImageFunction"].code = ImageBundleCode]

RevalidationQueue ==
    [type                   |-> "Queue",
     fifo                   |-> TRUE,
     receiveMessageWaitTime |-> QueueReceiveWaitSeconds,
     queueUrl               |-> "RevalidationQueue.queueUrl"]

RevalidationFunction ==
    [type         |-> "Function",
     description  |-> "Next.js revalidator",
     handler      |-> "index.handler",
     code         |-> props.path \o "/.open-next/revalidation-function",
     runtime      |-> "NODEJS_18_X",
     timeout      |-> RevalidationTimeoutSeconds,
     eventSources |-> { [queue |-> "RevalidationQueue", batchSize |-> RevalidationBatchSize] }]

\* server?.addEnvironment(...) twice, then queue.grantSendMessages(server?.role!)
ServerAfterRevalidation(server) ==
    [server EXCEPT
        !.environment = Spread(@, [REVALIDATION_QUEUE_URL    |-> RevalidationQueue.queueUrl,
                                   REVALIDATION_QUEUE_REGION |-> Region]),
        !.rolePolicy  = @ \cup { [action |-> "sqs:SendMessage", resource |-> "RevalidationQueue"] }]

RevalidationResources(cs) ==
    AddConstruct(AddConstruct(cs, "RevalidationQueue", RevalidationQueue),
                 "RevalidationFunction", RevalidationFunction)

createRevalidationUnguarded ==
    constructs' = RevalidationResources(constructs)

createRevalidationNoEnvironment ==
    \/ /\ ~IsSome(serverLambdaForRegional) /\ ~IsSome(serverLambdaForEdge)
       /\ UNCHANGED constructs
    \/ /\ IsSome(serverLambdaForRegional) \/ IsSome(serverLambdaForEdge)
       /\ constructs' = RevalidationResources(constructs)

createRevalidation ==
    \/ /\ ~IsSome(serverLambdaForRegional) /\ ~IsSome(serverLambdaForEdge)
       /\ UNCHANGED constructs
    \/ /\ IsSome(serverLambdaForRegional) \/ IsSome(serverLambdaForEdge)
       /\ LET server == IF IsSome(serverLambdaForRegional)
                        THEN Val(serverLambdaForRegional)
                        ELSE Val(serverLambdaForEdge)
          IN  constructs' = [RevalidationResources(constructs) EXCEPT
                                ![server] = ServerAfterRevalidation(@)]

NextTask == deferredTaskCallbacks[Len(ran) + 1]

\* for (const task of this.deferredTaskCallbacks) await task()
RunDeferredTask ==
    /\ pc = "built"
    /\ Len(ran) < Len(deferredTaskCallbacks)
    /\ \/ NextTask = "updateImageCode" /\ updateImageCode
       \/ NextTask = "createRevalidation" /\ createRevalidation
    /\ ran' = Append(ran, NextTask)
    /\ UNCHANGED << props, pc, serverLambdaForRegional, serverLambdaForEdge,
                    serverBehavior, imageBehavior, distribution, deferredTaskCallbacks,
                    buildDone >>

FinishDeferredTasks ==
    /\ pc = "built"
    /\ Len(ran) = Len(deferredTaskCallbacks)
    /\ pc' = "done"
    /\ UNCHANGED << props, constructs, serverLambdaForRegional, serverLambdaForEdge,
                    serverBehavior, imageBehavior, distribution, deferredTaskCallbacks,
                    ran, buildDone >>

Next ==
    \/ SsrSiteCreateFunction
    \/ createCloudFrontDistributionForRegional
    \/ createCloudFrontDistributionForEdge
    \/ NextjsSiteConstructor
    \/ BuildApp
    \/ RunDeferredTask
    \/ FinishDeferredTasks

Spec == Init /\ [][Next]_vars

-----------------------------------------------------------------------------
(* Vocabulary of the properties *)

Range(f) == { f[x] : x \in DOMAIN f }
IsPrefix(a, b) == Len(a) <= Len(b) /\ SubSeq(b, 1, Len(a)) = a
Position(seq, x) == CHOOSE i \in 1..Len(seq) : seq[i] = x

RegionalBuilt == IsSome(distribution) /\ IsSome(serverLambdaForRegional)
EdgeBuilt == IsSome(distribution) /\ IsSome(serverLambdaForEdge)
NoServer == ~IsSome(serverLambdaForRegional) /\ ~IsSome(serverLambdaForEdge)
RevalidationRan == "createRevalidation" \in Range(ran)
ImageCodeRan == "updateImageCode" \in Range(ran)

\* the base path p of the properties: the empty string when none is given
BasePathGiven == IF IsSome(props.basePath) THEN Val(props.basePath) ELSE ""

ExpectedRegionalPatterns ==
    { BasePathGiven \o "/api/*", BasePathGiven \o "_next/data/*", BasePathGiven \o "_next/image*" }
ExpectedEdgePatterns == { "api/*", "_next/data/*", "_next/image*" }

\* the patterns the caller names in cdk.distribution.additionalBehaviors
CallerPatterns ==
    IF IsSome(props.cdk.distribution)
       /\ "additionalBehaviors" \in DOMAIN Val(props.cdk.distribution)
    THEN DOMAIN (Val(props.cdk.distribution)["additionalBehaviors"])
    ELSE {}

RoutingTable == Val(distribution)["additionalBehaviors"]
HasDefault == "defaultBehavior" \in DOMAIN Val(distribution)

\* C1 (as stated): for every base path p the regional routing table holds
\* exactly p+"/api/*", p+"_next/data/*", p+"_next/image*" plus the default,
\* and the edge table holds its three patterns with no base path applied.
C1_ExactPatterns ==
    /\ RegionalBuilt => HasDefault /\ DOMAIN RoutingTable = ExpectedRegionalPatterns
    /\ EdgeBuilt => HasDefault /\ DOMAIN RoutingTable = ExpectedEdgePatterns

\* C1 (amended): the regional routing table holds the default and the
\* patterns p+"/api/*", p+"_next/data/*", p+"_next/image*", the edge table
\* holds the default and the same three patterns with no base path, and
\* every other pattern of either table is one the caller supplied in
\* cdk.distribution.additionalBehaviors.
C1_PatternsWithCallerEntries ==
    /\ RegionalBuilt =>
          HasDefault /\ DOMAIN RoutingTable = ExpectedRegionalPatterns \cup CallerPatterns
    /\ EdgeBuilt =>
          HasDefault /\ DOMAIN RoutingTable = ExpectedEdgePatterns \cup CallerPatterns

C1_Witness ==
    /\ RegionalBuilt
    /\ props.basePath = Some("/docs")
    /\ "/docs/api/*" \in DOMAIN RoutingTable
    /\ "/extra/*" \in CallerPatterns

NoRevalidationResource(cs) ==
    /\ ~Has(cs, "RevalidationQueue")
    /\ ~Has(cs, "RevalidationFunction")
    /\ \A id \in DOMAIN cs :
          /\ cs[id].type # "Queue"
          /\ "eventSources" \notin DOMAIN cs[id]
          /\ "environment" \in DOMAIN cs[id] =>
                DOMAIN cs[id].environment \cap
                    { "REVALIDATION_QUEUE_URL", "REVALIDATION_QUEUE_REGION" } = {}
          /\ "rolePolicy" \in DOMAIN cs[id] => cs[id].rolePolicy = {}

RevalidationStep ==
    /\ pc = "built"
    /\ Len(ran) < Len(deferredTaskCallbacks)
    /\ NextTask = "createRevalidation"
    /\ ran' = Append(ran, "createRevalidation")

\* C2: with neither server handle set, createRevalidation creates no queue,
\* no consumer, no subscription, no environment variable and no grant, and
\* the construct tree after the call is the one before it.
C2_NoServerNoResources ==
    /\ [](NoServer /\ RevalidationRan => NoRevalidationResource(constructs))
    /\ [][NoServer /\ RevalidationStep => constructs' = constructs]_vars

C2_Witness == NoServer /\ RevalidationRan /\ pc = "done"

TheServer ==
    IF IsSome(serverLambdaForRegional) THEN Val(serverLambdaForRegional)
    ELSE Val(serverLambdaForEdge)

\* C3: with a server function, after createRevalidation there is one FIFO
\* queue with a 20-second receive wait, one consumer subscribed to it with
\* batch size 5, the server has REVALIDATION_QUEUE_URL and
\* REVALIDATION_QUEUE_REGION in its environment and its role may send
\* messages to the queue.
C3_RevalidationPipeline ==
    ~NoServer /\ RevalidationRan =>
        LET queues == { id \in DOMAIN constructs : constructs[id].type = "Queue" }
            consumers == { id \in DOMAIN constructs : "eventSources" \in DOMAIN constructs[id] }
            server == constructs[TheServer]
        IN  /\ Cardinality(queues) = 1
            /\ \A q \in queues :
                  /\ constructs[q].fifo = TRUE
                  /\ constructs[q].receiveMessageWaitTime = 20
                  /\ Cardinality(consumers) = 1
                  /\ \A c \in consumers :
                        constructs[c].eventSources = { [queue |-> q, batchSize |-> 5] }
                  /\ { "REVALIDATION_QUEUE_URL", "REVALIDATION_QUEUE_REGION" }
                        \subseteq DOMAIN server.environment
                  /\ server.environment["REVALIDATION_QUEUE_URL"] = constructs[q].queueUrl
                  /\ server.environment["REVALIDATION_QUEUE_REGION"] = Region
                  /\ [action |-> "sqs:SendMessage", resource |-> q] \in server.rolePolicy

C3_Witness ==
    /\ IsSome(serverLambdaForEdge)
    /\ RevalidationRan
    /\ Has(constructs, "RevalidationQueue")

ExpectedImageBundle ==
    [s3Bucket        |-> Some("AssetBucket"),
     s3Key           |-> Some(SitePath \o "/.open-next/image-optimization-function.zip"),
     s3ObjectVersion |-> None]

\* C4: the image function holds the inline placeholder from its creation
\* until its deferred callback runs and the built bundle (bucket, key,
\* version) afterwards; the function is the same resource throughout, only
\* its code changes.
C4_ImageCodeSwap ==
    /\ [](Has(constructs, "ImageFunction") =>
            constructs["ImageFunction"].code =
                IF ImageCodeRan THEN ExpectedImageBundle
                ELSE [zipFile |-> "export function handler() {}"])
    /\ [][Has(constructs, "ImageFunction") =>
            /\ Has(constructs', "ImageFunction")
            /\ [constructs'["ImageFunction"] EXCEPT !.code = constructs["ImageFunction"].code]
                  = constructs["ImageFunction"]]_vars

C4_Witness == Has(constructs, "ImageFunction") /\ ImageCodeRan

\* C5: the deferred task list grows only during construction, by appending;
\* it is drained once, after the build: no callback runs before the build
\* completes, callbacks run in registration order, each exactly once, and
\* the image code swap runs before createRevalidation.
C5_DeferredTasks ==
    /\ [](/\ IsPrefix(ran, deferredTaskCallbacks)
          /\ ran # << >> => buildDone
          /\ pc = "done" => ran = deferredTaskCallbacks
          /\ \A i, j \in 1..Len(deferredTaskCallbacks) :
                deferredTaskCallbacks[i] = deferredTaskCallbacks[j] => i = j
          /\ ImageCodeRan /\ RevalidationRan =>
                Position(ran, "updateImageCode") < Position(ran, "createRevalidation")
          /\ RevalidationRan /\ "updateImageCode" \in Range(deferredTaskCallbacks) =>
                ImageCodeRan)
    /\ [][deferredTaskCallbacks' # deferredTaskCallbacks =>
            /\ pc \in { "function", "super" }
            /\ ~buildDone
            /\ Len(deferredTaskCallbacks') = Len(deferredTaskCallbacks) + 1
            /\ IsPrefix(deferredTaskCallbacks, deferredTaskCallbacks')]_vars
    /\ [][pc = "done" => ran' = ran]_vars

C5_Witness ==
    /\ pc = "done"
    /\ ran = << "updateImageCode", "createRevalidation" >>

MemorySizeGiven ==
    IsSome(props.imageOptimization) /\ IsSome(Val(props.imageOptimization).memorySize)

\* C6: when imageOptimization.memorySize is not given, the image
\* optimization function is created with a memory size of 1024 MB.
C6_DefaultMemory ==
    Has(constructs, "ImageFunction") /\ ~MemorySizeGiven =>
        constructs["ImageFunction"].memorySize = ImageMemoryDocumentedDefault

\* C7: a number n and the size string "n MB" give the image optimization
\* function the same memory size.
C7_EquivalentInputs ==
    Has(constructs, "ImageFunction") /\ MemorySizeGiven
      /\ Val(Val(props.imageOptimization).memorySize).type = "number" =>
        LET n == Val(Val(props.imageOptimization).memorySize).value
            asString == Some([memorySize |-> Some([type |-> "string", value |-> MBString(n)])])
        IN  constructs["ImageFunction"].memorySize = ImageMemorySize(asString)

FiveHeaders ==
    { "accept", "rsc", "next-router-prefetch", "next-router-state-tree", "next-url" }

ExpectedPolicy(policy) ==
    IF IsSome(props.cdk.serverCachePolicy)
    THEN policy = Val(props.cdk.serverCachePolicy)
    ELSE policy.id = "ServerCache" /\ policy.headers = FiveHeaders

\* C8 (as stated): every behaviour of the distribution uses the policy that
\* allow-lists exactly the five headers, or the caller's cdk.serverCachePolicy
\* when one is supplied.
C8_EveryBehaviourOfDistribution ==
    IsSome(distribution) =>
        /\ ExpectedPolicy(Val(distribution)["defaultBehavior"].cachePolicy)
        /\ \A p \in DOMAIN RoutingTable : ExpectedPolicy(RoutingTable[p].cachePolicy)

\* C8 (amended): the default behaviour and every behaviour the construct
\* builds (the server behaviour and the image behaviour, registered under
\* every pattern the caller did not supply) use the policy that allow-lists
\* exactly the five headers, or the caller's cdk.serverCachePolicy when one
\* is supplied.
C8_BuiltBehavioursPolicy ==
    IsSome(distribution) =>
        /\ ExpectedPolicy(Val(serverBehavior).cachePolicy)
        /\ ExpectedPolicy(Val(imageBehavior).cachePolicy)
        /\ ExpectedPolicy(Val(distribution)["defaultBehavior"].cachePolicy)
        /\ \A p \in (DOMAIN RoutingTable) \ CallerPatterns :
              ExpectedPolicy(RoutingTable[p].cachePolicy)

C8_Witness ==
    /\ IsSome(distribution)
    /\ ~IsSome(props.cdk.serverCachePolicy)
    /\ Val(imageBehavior).cachePolicy.headers = FiveHeaders
    /\ CallerPatterns # {}

SignedUrls == IsSome(props.regional) /\ Val(props.regional).enableServerUrlIamAuth

\* C9: the image behaviour has the URL-signing function at the
\* origin-request event, with permission to invoke the image function's URL,
\* exactly when regional.enableServerUrlIamAuth is on; the image function
\* URL uses IAM authentication in exactly those cases and is otherwise
\* unauthenticated, with no edge function on the behaviour.
C9_SigningIffIamAuth ==
    IsSome(imageBehavior) =>
        LET edge == Val(imageBehavior).edgeLambdas
            url  == constructs["ImageFunction"].functionUrlAuthType
        IN  /\ IsSome(url)
            /\ SignedUrls =>
                  /\ Len(edge) = 1
                  /\ edge[1].eventType = "ORIGIN_REQUEST"
                  /\ Has(constructs, edge[1].functionVersion)
                  /\ [action |-> "lambda:InvokeFunctionUrl", resource |-> "ImageFunction"]
                        \in constructs[edge[1].functionVersion].permissions
                  /\ Val(url) = "AWS_IAM"
            /\ ~SignedUrls =>
                  /\ edge = << >>
                  /\ Val(url) = "NONE"
                  /\ \A id \in DOMAIN constructs :
                        "permissions" \in DOMAIN constructs[id] =>
                            \A perm \in constructs[id].permissions :
                                perm.action # "lambda:InvokeFunctionUrl"

C9_Witness ==
    /\ IsSome(imageBehavior)
    /\ SignedUrls
    /\ Len(Val(imageBehavior).edgeLambdas) = 1

\* C10: no cdk.distribution override replaces what the construct built: the
\* default behaviour and the behaviours under the api, _next/data and
\* _next/image patterns are the construct's own, in both variants.
C10_BuiltEntriesNotOverwritten ==
    IsSome(distribution) =>
        LET base == IF IsSome(serverLambdaForRegional) THEN BasePathGiven ELSE ""
            api  == IF IsSome(serverLambdaForRegional) THEN base \o "/api/*" ELSE "api/*"
        IN  /\ Val(distribution)["defaultBehavior"] = Val(serverBehavior)
            /\ RoutingTable[api] = Val(serverBehavior)
            /\ RoutingTable[base \o "_next/data/*"] = Val(serverBehavior)
            /\ RoutingTable[base \o "_next/image*"] = Val(imageBehavior)

=============================================================================
